---- MODULE Spec2Model ----
(***************************************************************************)
(* Client-side marketing-page tooling: the consent banner                  *)
(* (bri-consent-banner.js), the behavioural analytics shim (the file of    *)
(* unknown name, src/unnamed/part_000) and the GDPR form library           *)
(* (bri-custom-forms.js with form-configs.js).                             *)
(*                                                                         *)
(* One browser tab is modelled.  The consent cookie and the local-store    *)
(* key outlive a page load; everything else is per page load.  Handlers    *)
(* run to completion (the browser's main thread), so each handler is one   *)
(* action.  Time advances in whole seconds (Tick); setTimeout callbacks    *)
(* fire at or after their delay.                                           *)
(***************************************************************************)
EXTENDS Integers, Sequences, FiniteSets, TLC

\* ------------------------------------------------------------------ bounds
\* Section elements on the page, and distinct data-track-section values.
NumElements == 2
NumIds == 2
\* CTA clicks and form submit events followed per page load.
MaxEvents == 1
\* init() runs followed per page load (the first, then re-entries).
MaxInits == 2

\* Submit events followed per form.
MaxSubmits == 2
\* The longest email text given to the validator.
MaxLen == 5
\* The longest text after the origin of a URL given to sanitizeURL.
MaxUrlLen == 3

\* CONFIG.sectionEngagementTime, in seconds.
SectionEngagementTime == 2

Elements == 1..NumElements
Ids == 1..NumIds
\* Timer handles of the browser; the shim holds at most one per identifier.
Handles == 1..(NumIds + 1)

\* The ways a page can place data-track-section on up to NumElements elements.
\* Identifiers are opaque, so they are numbered in the order of their first
\* use: an element carries an identifier used before it, or the next new one.
Arrangements ==
    {s \in UNION {[1..n -> Ids] : n \in 0..NumElements} :
        \A e \in DOMAIN s :
            \/ s[e] = 1
            \/ \E d \in 1..(e - 1) : s[d] = s[e] \/ s[d] = s[e] - 1}

VARIABLES
    cookie,     \* the analytics-consent cookie: "absent", "true" or "false"
    local,      \* localStorage['analytics-consent']: "absent", "true" or "false"
    page,       \* what the page carries: campaign attribute, vendor globals,
                \* utm_medium, a [data-track-cta] element, a <form>
    sectionOf,  \* data-track-section of each tracked element of the page
    visible,    \* element is intersecting at or above the visibility threshold
    visDur,     \* seconds the element has been continuously visible (capped)
    state,      \* the analytics shim's `state` object
    timers,     \* the browser's pending dwell timeouts, by handle
    withdrawn,  \* the most recent consent operation was a rejection
    installed,  \* observers and listeners the shim has installed on this page
    va,         \* events the generic analytics sink (window.va) has received
    hsq,        \* entries pushed onto the CRM queue (window._hsq)
    banner,     \* the consent banner: "none", "pending", "shown", "removing", "removed"
    obs,        \* what the last handler did (calls made, events sent)
    formConfig, \* the configuration the BRICustomForm was constructed with
    populate,   \* window.BRI_populateFormFields is present
    emailInput, \* the text in the form's email input
    consentBox, \* the #gdpr-consent checkbox is checked
    consentGiven, \* BRICustomForm.consentGiven
    ui,         \* the form, its two message panels and the submit button
    request,    \* the POST in flight, or NoRequest
    submitLog,  \* one record per submit event of this page load
    fop,        \* the form handler that ran last
    vIn,        \* an input of GDPRComplianceValidator.validate
    vOut,       \* its result, or NoResult before the call
    href,       \* window.location.href
    referrer,   \* document.referrer
    sent        \* the URL-valued properties trackPageView() transmitted

analyticsVars == <<cookie, local, page, sectionOf, visible, visDur, state, timers,
                   withdrawn, installed, va, hsq, banner, obs>>
formVars == <<formConfig, populate, emailInput, consentBox, consentGiven, ui,
              request, submitLog, fop>>
validatorVars == <<vIn, vOut>>
urlVars == <<href, referrer, sent>>

vars == <<analyticsVars, formVars, validatorVars, urlVars>>

\* The three components share no state: a step of one leaves the others alone.
AnalyticsStep == UNCHANGED <<formVars, validatorVars, urlVars>>
FormStep == UNCHANGED <<analyticsVars, validatorVars, urlVars>>
ValidatorStep == UNCHANGED <<analyticsVars, formVars, urlVars>>
UrlStep == UNCHANGED <<analyticsVars, formVars, validatorVars>>

Absent == "absent"
ConsentValues == {Absent, "true", "false"}
Mediums == {"none", "qr", "email"}

\* Event names of the two sinks; a section event carries its section id.
VaEvents ==
    {<<"page_view", 0>>, <<"qr_scan_landing", 0>>, <<"cta_conversion", 0>>,
     <<"form_submission", 0>>} \cup {<<"section_engagement", i>> : i \in Ids}
HsEvents ==
    {<<"Landing Page View", 0>>, <<"QR Code Scan", 0>>, <<"CTA Click", 0>>,
     <<"Form Submission", 0>>} \cup {<<"Section Engagement", i>> : i \in Ids}

NoTimer == -1

\* A free slot of the browser's timer table.
FreeSlot == [id |-> 0, left |-> 0]

\* ------------------------------------------------------ the analytics shim

\* hasUserConsent(): the cookie's text includes 'true', or the local value is 'true'.
hasUserConsent(c, l) == c = "true" \/ l = "true"

\* detectQRScan(): utm_medium === 'qr'.
detectQRScan == page.medium = "qr"

\* The handler context: the mutable state a handler reads and writes, and
\* counters of the sink calls it makes.
Ctx ==
    [cookie |-> cookie, local |-> local, state |-> state, timers |-> timers,
     installed |-> installed, va |-> va, hsq |-> hsq, vis |-> visible,
     vaCalls |-> 0, hsCalls |-> 0, inits |-> 0]

\* A faulty variant: the generic sink gated by consent like the CRM sink.
sendVercelEventGated(c, ev) ==
    IF page.va /\ hasUserConsent(c.cookie, c.local)
    THEN [c EXCEPT !.va[ev] = @ + 1, !.vaCalls = @ + 1]
    ELSE [c EXCEPT !.vaCalls = @ + 1]

\* sendVercelEvent(): track when window.va is a function, else skip.
sendVercelEvent(c, ev) ==
    IF page.va
    THEN [c EXCEPT !.va[ev] = @ + 1, !.vaCalls = @ + 1]
    ELSE [c EXCEPT !.vaCalls = @ + 1]

\* A faulty variant: the consent check dropped.
sendHubSpotEventUngated(c, ev) ==
    IF page.hsq
    THEN [c EXCEPT !.hsq[ev] = @ + 1, !.hsCalls = @ + 1]
    ELSE [c EXCEPT !.hsCalls = @ + 1]

\* sendHubSpotEvent(): return without consent; push when window._hsq is defined.
sendHubSpotEvent(c, ev) ==
    IF ~hasUserConsent(c.cookie, c.local)
    THEN [c EXCEPT !.hsCalls = @ + 1]
    ELSE IF page.hsq
         THEN [c EXCEPT !.hsq[ev] = @ + 1, !.hsCalls = @ + 1]
         ELSE [c EXCEPT !.hsCalls = @ + 1]

\* URLs are texts over an origin ("o": scheme, "://" and the first character
\* of the host), host or path characters ("a"), and the three delimiters.
UrlChars == {"/", "a", "?", "#"}

UrlTails(n) == UNION {[1..k -> UrlChars] : k \in 0..n}

\* The first position of text t that holds a character of set, or Len(t) + 1.
FirstIn(t, set) ==
    IF \E k \in 1..Len(t) : t[k] \in set
    THEN CHOOSE k \in 1..Len(t) :
            t[k] \in set /\ \A j \in 1..(k - 1) : t[j] \notin set
    ELSE Len(t) + 1

\* new URL(url) without a base: a text that does not start with an origin throws.
UrlParses(url) == Len(url) > 0 /\ url[1] = "o"

\* new URL(url).pathname: the host ends at the first delimiter; the path runs
\* from a "/" there up to the query or the fragment, and is "/" when empty.
Pathname(url) ==
    LET rest == Tail(url)
        from == FirstIn(rest, {"/", "?", "#"})
        upTo == FirstIn(rest, {"?", "#"}) - 1
    IN IF from > Len(rest) \/ rest[from] # "/" THEN <<"/">>
       ELSE SubSeq(rest, from, upTo)

\* A faulty variant: the origin stripped, the query and the fragment kept.
sanitizeURLKeepQuery(url) ==
    IF UrlParses(url)
    THEN LET rest == Tail(url)
             from == FirstIn(rest, {"/", "?", "#"})
         IN IF from > Len(rest) THEN <<"/">> ELSE SubSeq(rest, from, Len(rest))
    ELSE <<"/">>

\* sanitizeURL(url): the pathname, or '/' when the URL constructor throws.
sanitizeURL(url) == IF UrlParses(url) THEN Pathname(url) ELSE <<"/">>

Direct == <<"direct">>

\* trackPageView()'s URL-valued properties: page for the generic sink,
\* page_url and referrer for the CRM sink.
pageViewProperties(location, ref) ==
    [page |-> sanitizeURL(location),
     page_url |-> sanitizeURL(location),
     referrer |-> IF ref # <<>> THEN sanitizeURL(ref) ELSE Direct]

\* trackQRLanding(): both sinks, only when state.isQR.
trackQRLanding(c) ==
    IF c.state.isQR
    THEN sendHubSpotEvent(sendVercelEvent(c, <<"qr_scan_landing", 0>>),
                          <<"QR Code Scan", 0>>)
    ELSE c

\* trackPageView(): both sinks.
trackPageView(c) ==
    sendHubSpotEvent(sendVercelEvent(c, <<"page_view", 0>>),
                     <<"Landing Page View", 0>>)

\* A faulty variant: the already-tracked check dropped.
trackSectionEngagementNoDedupe(c, id) ==
    sendHubSpotEvent(
        sendVercelEvent([c EXCEPT !.state.trackedSections = @ \cup {id}],
                        <<"section_engagement", id>>),
        <<"Section Engagement", id>>)

\* trackSectionEngagement(): once per section id, then both sinks.
trackSectionEngagement(c, id) ==
    IF id \in c.state.trackedSections
    THEN c
    ELSE sendHubSpotEvent(
             sendVercelEvent([c EXCEPT !.state.trackedSections = @ \cup {id}],
                             <<"section_engagement", id>>),
             <<"Section Engagement", id>>)

\* trackCTAClick(): both sinks.
trackCTAClick(c) ==
    sendHubSpotEvent(sendVercelEvent(c, <<"cta_conversion", 0>>), <<"CTA Click", 0>>)

\* trackFormSubmit(): both sinks.
trackFormSubmit(c) ==
    sendHubSpotEvent(sendVercelEvent(c, <<"form_submission", 0>>),
                     <<"Form Submission", 0>>)

\* setTimeout(callback, CONFIG.sectionEngagementTime) for section id: a new
\* pending timeout under an unused handle, which is the call's value.
NewHandle(c) == CHOOSE h \in Handles : c.timers[h] = FreeSlot /\
                    \A g \in Handles : c.timers[g] = FreeSlot => h <= g

setTimeout(c, id) ==
    [c EXCEPT !.timers[NewHandle(c)] = [id |-> id, left |-> SectionEngagementTime]]

\* clearTimeout(handle): the timeout, when still pending, will not fire.
clearTimeout(c, h) ==
    IF h \in Handles THEN [c EXCEPT !.timers[h] = FreeSlot] ELSE c

\* A faulty variant: the timer is left running when the section leaves the threshold.
observerCallbackNoCancel(c, e, isVisible) ==
    LET id == sectionOf[e] IN
    IF isVisible /\ c.state.sectionTimers[id] = NoTimer
    THEN [setTimeout(c, id) EXCEPT !.state.sectionTimers[id] = NewHandle(c)]
    ELSE c

\* A faulty variant: a timer is started whether or not the map has one.
observerCallbackNoHasCheck(c, e, isVisible) ==
    LET id == sectionOf[e] IN
    IF isVisible
    THEN IF \E h \in Handles : c.timers[h] = FreeSlot
         THEN [setTimeout(c, id) EXCEPT !.state.sectionTimers[id] = NewHandle(c)]
         ELSE c
    ELSE IF c.state.sectionTimers[id] # NoTimer
         THEN [clearTimeout(c, c.state.sectionTimers[id])
                  EXCEPT !.state.sectionTimers[id] = NoTimer]
         ELSE c

\* The IntersectionObserver callback for one entry: start the section's timer
\* when visible and the map has none, clear and delete it when not visible.
observerCallback(c, e, isVisible) ==
    LET id == sectionOf[e] IN
    IF isVisible
    THEN IF c.state.sectionTimers[id] = NoTimer
         THEN [setTimeout(c, id) EXCEPT !.state.sectionTimers[id] = NewHandle(c)]
         ELSE c
    ELSE IF c.state.sectionTimers[id] # NoTimer
         THEN [clearTimeout(c, c.state.sectionTimers[id])
                  EXCEPT !.state.sectionTimers[id] = NoTimer]
         ELSE c

\* One entry delivered to each of n observers in turn.
RECURSIVE notifyObservers(_, _, _, _)
notifyObservers(c, e, isVisible, n) ==
    IF n = 0 THEN c
    ELSE notifyObservers(observerCallback(c, e, isVisible), e, isVisible, n - 1)

\* observer.observe(section) for every section: the new observer reports each
\* element's current intersection once.
RECURSIVE observeAll(_, _)
observeAll(c, e) ==
    IF e \notin DOMAIN sectionOf THEN c
    ELSE observeAll(observerCallback(c, e, c.vis[e]), e + 1)

\* setupSectionObserver(): a new observer over all [data-track-section] elements.
setupSectionObserver(c) ==
    IF DOMAIN sectionOf = {} THEN c
    ELSE observeAll([c EXCEPT !.installed.observers = @ + 1], 1)

\* setupCTATracking(): one more click listener on the page's CTA, if it has one.
setupCTATracking(c) == IF page.cta THEN [c EXCEPT !.installed.cta = @ + 1] ELSE c

\* setupFormTracking(): one more submit listener on the page's form, if it has one.
setupFormTracking(c) == IF page.form THEN [c EXCEPT !.installed.form = @ + 1] ELSE c

\* init(): exit when the campaign attribute is absent; else read the context,
\* send the initial events and install the observer and the listeners.
init(c) ==
    LET c0 == [c EXCEPT !.inits = @ + 1, !.state.analyticsId = page.campaign] IN
    IF ~page.campaign THEN c0
    ELSE setupFormTracking(setupCTATracking(setupSectionObserver(
             trackQRLanding(trackPageView(
                 [c0 EXCEPT !.state.isQR = detectQRScan,
                            !.installed.inits = @ + 1])))))

\* window.EventAnalytics.setConsent(value): write the local store, and
\* re-initialize when value is truthy.
EventAnalyticsSetConsent(c, value) ==
    LET c1 == [c EXCEPT !.local = IF value THEN "true" ELSE "false"] IN
    IF value THEN init(c1) ELSE c1

\* --------------------------------------------------------- the consent banner

\* hasExistingConsent(): a cookie or a local value exists, whatever it says.
hasExistingConsent == cookie # Absent \/ local # Absent

\* A faulty variant: the shim is signalled whatever the choice.
setConsentAlwaysSignal(c, value) ==
    LET c1 == [c EXCEPT !.cookie = value, !.local = value] IN
    IF page.ea THEN init(c1) ELSE c1

\* setConsent(value): cookie, then local store, then the shim when granted and loaded.
setConsent(c, value) ==
    LET c1 == [c EXCEPT !.cookie = value, !.local = value] IN
    IF value = "true" /\ page.ea THEN EventAnalyticsSetConsent(c1, TRUE) ELSE c1

\* ------------------------------------------------------------------ actions

ZeroLog(names) == [ev \in names |-> 0]

FreshState ==
    [analyticsId |-> FALSE, isQR |-> FALSE, trackedSections |-> {},
     sectionTimers |-> [i \in Ids |-> NoTimer]]

\* The number of events a sink holds.
RECURSIVE TotalOver(_, _)
TotalOver(log, evs) ==
    IF evs = {} THEN 0
    ELSE LET ev == CHOOSE x \in evs : TRUE IN log[ev] + TotalOver(log, evs \ {ev})

Total(log) == TotalOver(log, DOMAIN log)

NoObs ==
    [op |-> "load", arg |-> FALSE, id |-> 0, vaCalls |-> 0, vaTracked |-> 0,
     hsCalls |-> 0, hsPushed |-> 0, inits |-> 0]

\* What a handler did, from the context b it started in and the context c it
\* ended in: the calls it made to each send function, and by how many events
\* each sink grew.
Observe(b, c, op, arg, id) ==
    [op |-> op, arg |-> arg, id |-> id,
     vaCalls |-> c.vaCalls, vaTracked |-> Total(c.va) - Total(b.va),
     hsCalls |-> c.hsCalls, hsPushed |-> Total(c.hsq) - Total(b.hsq),
     inits |-> c.inits]

\* The consent operations exposed to the page.
ConsentOps == {"handleConsentChoice", "EventAnalytics.setConsent"}

\* A handler's result written back.
Commit(b, c, op, arg, id) ==
    /\ cookie' = c.cookie
    /\ local' = c.local
    /\ state' = c.state
    /\ timers' = c.timers
    /\ withdrawn' = IF op \in ConsentOps THEN ~arg ELSE withdrawn
    /\ installed' = c.installed
    /\ va' = c.va
    /\ hsq' = c.hsq
    /\ obs' = Observe(b, c, op, arg, id)

\* The context of a page that has just been parsed: nothing installed, empty sinks.
FreshCtx(ck, lc, v) ==
    [cookie |-> ck, local |-> lc, state |-> FreshState,
     timers |-> [h \in Handles |-> FreeSlot],
     installed |-> [inits |-> 0, observers |-> 0, cta |-> 0, form |-> 0],
     va |-> ZeroLog(VaEvents), hsq |-> ZeroLog(HsEvents), vis |-> v,
     vaCalls |-> 0, hsCalls |-> 0, inits |-> 0]

\* Both scripts' auto-initialization at DOM ready: the shim's init() when it is
\* on the page, and the banner's init(), which defers the banner by 1000 ms
\* when no decision is stored.
LoadedCtx(ck, lc, v) ==
    IF page.ea THEN init(FreshCtx(ck, lc, v)) ELSE FreshCtx(ck, lc, v)

BannerAfterLoad(ck, lc) == IF ck # Absent \/ lc # Absent THEN "none" ELSE "pending"

Pages ==
    [campaign : BOOLEAN, va : BOOLEAN, hsq : BOOLEAN, ea : BOOLEAN, medium : Mediums,
     cta : BOOLEAN, form : BOOLEAN]

\* A first visit to page p with tracked elements s: nothing stored, the page
\* loaded and both scripts initialized.
InitOn(p, s) ==
    /\ page = p
    /\ sectionOf = s
    /\ visible \in [DOMAIN s -> BOOLEAN]
    /\ visDur = [e \in DOMAIN s |-> 0]
    /\ LET c == LoadedCtx(Absent, Absent, visible) IN
         /\ cookie = c.cookie
         /\ local = c.local
         /\ state = c.state
         /\ timers = c.timers
         /\ installed = c.installed
         /\ va = c.va
         /\ hsq = c.hsq
         /\ obs = Observe(FreshCtx(Absent, Absent, visible), c, "load", FALSE, 0)
    /\ banner = BannerAfterLoad(Absent, Absent)
    /\ withdrawn = FALSE

\* Pages that carry one kind of tracked thing: a CTA, a form, or one section.
InitPages ==
    \E p \in Pages, s \in Arrangements :
        /\ \/ p.cta /\ ~p.form /\ DOMAIN s = {}
           \/ ~p.cta /\ p.form /\ DOMAIN s = {}
           \/ ~p.cta /\ ~p.form /\ DOMAIN s = {1} /\ s[1] = 1
        /\ InitOn(p, s)

\* The page is loaded again: storage is kept, all page state is new.  The
\* elements in view are those in view before (VisibilityChange reaches every
\* combination); their dwell starts over.
PageLoad ==
    /\ AnalyticsStep
    /\ Commit(FreshCtx(cookie, local, visible), LoadedCtx(cookie, local, visible),
              "load", FALSE, 0)
    /\ visDur' = [e \in DOMAIN sectionOf |-> 0]
    /\ banner' = BannerAfterLoad(cookie, local)
    /\ UNCHANGED <<page, sectionOf, visible>>

\* The banner's deferred setTimeout(showConsentBanner, 1000) fires.
ShowConsentBanner ==
    /\ AnalyticsStep
    /\ banner = "pending"
    /\ banner' = "shown"
    /\ obs' = [NoObs EXCEPT !.op = "showConsentBanner"]
    /\ UNCHANGED <<cookie, local, page, sectionOf, visible, visDur, state, timers,
                   withdrawn, installed, va, hsq>>

\* window.handleConsentChoice(accepted): the banner's buttons, or page code.
HandleConsentChoice(accepted) ==
    /\ AnalyticsStep
    /\ accepted /\ page.ea => installed.inits < MaxInits
    /\ Commit(Ctx, setConsent(Ctx, IF accepted THEN "true" ELSE "false"),
              "handleConsentChoice", accepted, 0)
    /\ banner' = IF banner = "shown" THEN "removing" ELSE banner
    /\ UNCHANGED <<page, sectionOf, visible, visDur>>

\* The 300 ms removal timer of handleConsentChoice fires.
BannerRemove ==
    /\ AnalyticsStep
    /\ banner = "removing"
    /\ banner' = "removed"
    /\ obs' = [NoObs EXCEPT !.op = "bannerRemove"]
    /\ UNCHANGED <<cookie, local, page, sectionOf, visible, visDur, state, timers,
                   withdrawn, installed, va, hsq>>

\* Page code calls window.EventAnalytics.setConsent(value).
SetConsentCall(value) ==
    /\ AnalyticsStep
    /\ page.ea
    /\ value => installed.inits < MaxInits
    /\ Commit(Ctx, EventAnalyticsSetConsent(Ctx, value),
              "EventAnalytics.setConsent", value, 0)
    /\ UNCHANGED <<page, sectionOf, visible, visDur, banner>>

RECURSIVE Repeat(_, _, _)
Repeat(c, n, isCta) ==
    IF n = 0 THEN c
    ELSE Repeat(IF isCta THEN trackCTAClick(c) ELSE trackFormSubmit(c), n - 1, isCta)

\* A click on the page's CTA: every installed click listener runs.
CTAClick ==
    /\ AnalyticsStep
    /\ page.cta
    /\ va[<<"cta_conversion", 0>>] < MaxEvents
    /\ hsq[<<"CTA Click", 0>>] < MaxEvents
    /\ Commit(Ctx, Repeat(Ctx, installed.cta, TRUE), "click", FALSE, 0)
    /\ UNCHANGED <<page, sectionOf, visible, visDur, banner>>

\* A submit event on the page's form: every installed submit listener runs.
FormSubmitEvent ==
    /\ AnalyticsStep
    /\ page.form
    /\ va[<<"form_submission", 0>>] < MaxEvents
    /\ hsq[<<"Form Submission", 0>>] < MaxEvents
    /\ Commit(Ctx, Repeat(Ctx, installed.form, FALSE), "submit", FALSE, 0)
    /\ UNCHANGED <<page, sectionOf, visible, visDur, banner>>

\* Page code calls window.EventAnalytics.trackCTAClick(ctaId, ctaType).
NamespaceTrackCTAClick ==
    /\ AnalyticsStep
    /\ page.ea
    /\ va[<<"cta_conversion", 0>>] < MaxEvents
    /\ hsq[<<"CTA Click", 0>>] < MaxEvents
    /\ Commit(Ctx, trackCTAClick(Ctx), "namespace", FALSE, 0)
    /\ UNCHANGED <<page, sectionOf, visible, visDur, banner>>

\* Page code calls window.EventAnalytics.trackFormSubmit(formType).
NamespaceTrackFormSubmit ==
    /\ AnalyticsStep
    /\ page.ea
    /\ va[<<"form_submission", 0>>] < MaxEvents
    /\ hsq[<<"Form Submission", 0>>] < MaxEvents
    /\ Commit(Ctx, trackFormSubmit(Ctx), "namespace", FALSE, 0)
    /\ UNCHANGED <<page, sectionOf, visible, visDur, banner>>

\* Page code calls window.EventAnalytics.trackSectionEngagement(id, name).
NamespaceTrackSectionEngagement(id) ==
    /\ AnalyticsStep
    /\ page.ea
    /\ Commit(Ctx, trackSectionEngagement(Ctx, id), "namespace", FALSE, id)
    /\ UNCHANGED <<page, sectionOf, visible, visDur, banner>>

\* An element crosses the visibility threshold: every observer is notified.
VisibilityChange(e) ==
    /\ AnalyticsStep
    /\ e \in DOMAIN sectionOf
    /\ visible' = [visible EXCEPT ![e] = ~@]
    /\ visDur' = [visDur EXCEPT ![e] = 0]
    /\ Commit(Ctx, notifyObservers(Ctx, e, ~visible[e], installed.observers),
              "intersection", ~visible[e], sectionOf[e])
    /\ UNCHANGED <<page, sectionOf, banner>>

\* One second passes.
Tick ==
    /\ AnalyticsStep
    /\ \/ \E e \in DOMAIN sectionOf : visible[e] /\ visDur[e] < SectionEngagementTime
       \/ \E h \in Handles : timers[h].left > 0
    /\ visDur' = [e \in DOMAIN sectionOf |->
                    IF visible[e] /\ visDur[e] < SectionEngagementTime
                    THEN visDur[e] + 1 ELSE visDur[e]]
    /\ timers' = [h \in Handles |->
                    IF timers[h].left > 0
                    THEN [timers[h] EXCEPT !.left = @ - 1] ELSE timers[h]]
    /\ obs' = [NoObs EXCEPT !.op = "tick"]
    /\ UNCHANGED <<cookie, local, page, sectionOf, visible, state, withdrawn,
                   installed, va, hsq, banner>>

\* A dwell timeout fires: report its section, then delete the section's map entry.
SectionTimerFire(h) ==
    /\ AnalyticsStep
    /\ timers[h] # FreeSlot
    /\ timers[h].left = 0
    /\ LET id == timers[h].id
           c == trackSectionEngagement([Ctx EXCEPT !.timers[h] = FreeSlot], id)
       IN Commit(Ctx, [c EXCEPT !.state.sectionTimers[id] = NoTimer],
                 "sectionTimer", FALSE, id)
    /\ UNCHANGED <<page, sectionOf, visible, visDur, banner>>

\* ------------------------------------------------------------ the form library
\* Texts are sequences of characters; Chars are the characters the email
\* pattern tells apart: a letter, the at sign, the dot and a blank.
Chars == {"a", "@", ".", " "}

Texts(n) == UNION {[1..k -> Chars] : k \in 0..n}

\* The validator's allowedFields.
allowedFields ==
    {"email", "firstname", "lastname", "company", "phone", "jobtitle",
     "event_name", "event_engagement_level", "utm_source_original",
     "session_duration_seconds", "top_interest_section_1", "top_interest_section_2",
     "top_interest_section_3", "cta_interaction_type", "linkedin_lead_source"}

\* [^\s@]+ : one or more characters, none a blank or an at sign.
Plain(t) == Len(t) > 0 /\ \A k \in 1..Len(t) : t[k] \notin {" ", "@"}

\* A faulty variant: the dot and what follows it not required.
isValidEmailNoDot(t) ==
    \E i \in 1..Len(t) :
        /\ t[i] = "@"
        /\ Plain(SubSeq(t, 1, i - 1))
        /\ Plain(SubSeq(t, i + 1, Len(t)))

\* isValidEmail(): /^[^\s@]+@[^\s@]+\.[^\s@]+$/
isValidEmail(t) ==
    \E i, j \in 1..Len(t) :
        /\ i < j
        /\ t[i] = "@"
        /\ t[j] = "."
        /\ Plain(SubSeq(t, 1, i - 1))
        /\ Plain(SubSeq(t, i + 1, j - 1))
        /\ Plain(SubSeq(t, j + 1, Len(t)))

\* An object is a sequence of <<key, value>> pairs with distinct keys, in
\* insertion order.
Keys(data) == {data[k][1] : k \in 1..Len(data)}

Get(data, key) == data[CHOOSE k \in 1..Len(data) : data[k][1] = key][2]

\* JavaScript truthiness of data[key]: defined and not the empty string.
Truthy(data, key) == key \in Keys(data) /\ Get(data, key) # <<>>

\* Object.assign(data, {key: value}).
Assign(data, key, value) ==
    IF key \in Keys(data)
    THEN [k \in 1..Len(data) |->
            IF data[k][1] = key THEN <<key, value>> ELSE data[k]]
    ELSE Append(data, <<key, value>>)

ConsentError == <<"Explicit consent is required before data processing", "">>
EmailRequiredError == <<"Email is required for contact identification", "">>
EmailInvalidError == <<"Email must be valid to ensure data accuracy", "">>
NotAllowedError(key) == <<"Field is not allowed", key>>

\* The "not allowed" errors of the keys from position k on, in key order.
RECURSIVE NotAllowedFrom(_, _)
NotAllowedFrom(data, k) ==
    IF k > Len(data) THEN <<>>
    ELSE (IF data[k][1] \in allowedFields THEN <<>>
          ELSE <<NotAllowedError(data[k][1])>>) \o NotAllowedFrom(data, k + 1)

\* A faulty variant: validation stops at the first violated rule.
validateFirstOnly(data, given) ==
    LET errors ==
            IF ~given THEN <<ConsentError>>
            ELSE IF ~Truthy(data, "email") THEN <<EmailRequiredError>>
            ELSE IF ~isValidEmail(Get(data, "email")) THEN <<EmailInvalidError>>
            ELSE SubSeq(NotAllowedFrom(data, 1), 1, 1)
    IN [isValid |-> errors = <<>>, errors |-> errors]

\* GDPRComplianceValidator.validate(formData, consentGiven).
validate(data, given) ==
    LET errors ==
            (IF ~given THEN <<ConsentError>> ELSE <<>>)
            \o (IF ~Truthy(data, "email") THEN <<EmailRequiredError>> ELSE <<>>)
            \o (IF Truthy(data, "email") /\ ~isValidEmail(Get(data, "email"))
                THEN <<EmailInvalidError>> ELSE <<>>)
            \o NotAllowedFrom(data, 1)
    IN [isValid |-> Len(errors) = 0, errors |-> errors]

\* BRI_FORM_CONFIGS, and a configuration with an email field and nothing
\* optional (no buttonText, no eventName, no onSuccess).
floatingBanner ==
    [fields |-> <<[type |-> "email", name |-> "email"],
                  [type |-> "text", name |-> "company"],
                  [type |-> "select", name |-> "interest_area"],
                  [type |-> "hidden", name |-> "cta_interaction_type"]>>,
     buttonText |-> "Get Framework", eventName |-> <<"a">>, onSuccess |-> TRUE]

quickEmail ==
    [fields |-> <<[type |-> "email", name |-> "email"],
                  [type |-> "hidden", name |-> "cta_interaction_type"]>>,
     buttonText |-> "Send Checklist", eventName |-> <<"a">>, onSuccess |-> TRUE]

exitIntent ==
    [fields |-> <<[type |-> "email", name |-> "email"],
                  [type |-> "hidden", name |-> "cta_interaction_type"]>>,
     buttonText |-> "Download Now", eventName |-> <<"a">>, onSuccess |-> TRUE]

minimalConfig ==
    [fields |-> <<[type |-> "email", name |-> "email"]>>,
     buttonText |-> "", eventName |-> <<>>, onSuccess |-> FALSE]

FormConfigs == {floatingBanner, quickEmail, exitIntent, minimalConfig}

\* this.config.buttonText || 'Submit'
ButtonLabel(config) == IF config.buttonText = "" THEN "Submit" ELSE config.buttonText

\* What the user can have typed into the email input: nothing, an address, and
\* two texts that are no address.
EmailInputs ==
    {<<>>, <<"a", "@", "a", ".", "a">>, <<"a", "@", "a">>, <<"a", " ", "@", "a", ".", "a">>}

\* The value a rendered control contributes to FormData: the email input's
\* text, a filled text or select control, a hidden field's configured value.
ControlValue(field) == IF field.type = "email" THEN emailInput ELSE <<"a">>

\* new FormData(form): every rendered control in document order, then the
\* consent checkbox when it is checked.
FormDataEntries ==
    [k \in 1..Len(formConfig.fields) |->
        <<formConfig.fields[k].name, ControlValue(formConfig.fields[k])>>]
    \o (IF consentBox THEN <<<<"gdpr_consent", <<"a">>>>>> ELSE <<>>)

\* getAnalyticsData(): event_name and utm_source_original, from a URL without
\* parameters.
getAnalyticsData ==
    <<<<"event_name", formConfig.eventName>>, <<"utm_source_original", <<"a">>>>>>

\* A faulty variant: the consent checkbox's entry kept in the data.
CollectDataKeepConsent ==
    LET own == FormDataEntries IN
    IF populate
    THEN Assign(Assign(own, "event_name", getAnalyticsData[1][2]),
                "utm_source_original", getAnalyticsData[2][2])
    ELSE own

\* handleSubmit's data: the FormData entries but gdpr_consent, then the
\* analytics fields when BRI_populateFormFields is present.
CollectData ==
    LET own == SelectSeq(FormDataEntries, LAMBDA en : en[1] # "gdpr_consent") IN
    IF populate
    THEN Assign(Assign(own, "event_name", getAnalyticsData[1][2]),
                "utm_source_original", getAnalyticsData[2][2])
    ELSE own

\* buildPayload(): one name/value pair per entry of the data, and the fixed
\* legal-consent block.
buildPayload(data) ==
    [fields |-> [k \in 1..Len(data) |-> [name |-> data[k][1], value |-> data[k][2]]],
     consentToProcess |-> TRUE]

NoRequest == [fields |-> <<>>, consentToProcess |-> FALSE]

\* How a fetch can settle: a 2xx response with one of two JSON bodies, a 2xx
\* response whose body is no JSON, a non-2xx response, a transport error.
Outcomes == {"ok:{}", "ok:{\"inlineMessage\":1}", "ok:<html>", "status:400", "network"}

ResponseOk(outcome) == outcome \in {"ok:{}", "ok:{\"inlineMessage\":1}", "ok:<html>"}

\* response.json(): the decoded body; a body that is no JSON throws.
JsonThrows(outcome) == outcome = "ok:<html>"

ResponseJson(outcome) ==
    IF outcome = "ok:{}" THEN [keys |-> {}] ELSE [keys |-> {"inlineMessage"}]

\* A faulty variant: a thrown error or a bad status reported as success.
submitResultAlwaysSuccess(outcome) ==
    [success |-> TRUE, data |-> ResponseJson(outcome)]

\* submit()'s result once the fetch has settled.
submitResult(outcome) ==
    IF ResponseOk(outcome) /\ ~JsonThrows(outcome)
    THEN [success |-> TRUE, data |-> ResponseJson(outcome)]
    ELSE [success |-> FALSE, data |-> [keys |-> {}]]

ValidationHeader == <<"Please correct the following:", "">>
SubmissionFailed ==
    <<<<"Submission failed. Please try again or contact james@bigrock-intel.ai", "">>>>

\* render(): the form shown, both panels hidden, the button enabled.
RenderedUi(config) ==
    [form |-> "block", success |-> "none", error |-> "none", errorText |-> <<>>,
     disabled |-> FALSE, label |-> ButtonLabel(config)]

\* A form constructed with configuration config and rendered.
FormInit(config) ==
    /\ formConfig = config
    /\ populate \in BOOLEAN
    /\ emailInput = <<>>
    /\ consentBox = FALSE
    /\ consentGiven = FALSE
    /\ ui = RenderedUi(config)
    /\ request = NoRequest
    /\ submitLog = <<>>
    /\ fop = "render"

\* The user edits the email input.
TypeEmail(text) ==
    /\ FormStep
    /\ ui.form = "block"
    /\ emailInput # text
    /\ emailInput' = text
    /\ fop' = "input"
    /\ UNCHANGED <<formConfig, populate, consentBox, consentGiven, ui, request, submitLog>>

\* The user toggles the consent checkbox: its change listener copies the state.
ConsentChange ==
    /\ FormStep
    /\ ui.form = "block"
    /\ consentBox' = ~consentBox
    /\ consentGiven' = consentBox'
    /\ fop' = "change"
    /\ UNCHANGED <<formConfig, populate, emailInput, ui, request, submitLog>>

\* A faulty variant: the request is sent before the validation result is looked at.
HandleSubmitNoBlock ==
    /\ FormStep
    /\ ui.form = "block" /\ ~ui.disabled
    /\ Len(submitLog) < MaxSubmits
    /\ LET data == CollectData
           validation == validate(data, consentGiven)
       IN /\ ui' = [ui EXCEPT !.success = "none", !.error = "none",
                              !.disabled = TRUE, !.label = "Submitting..."]
          /\ request' = buildPayload(data)
          /\ submitLog' = Append(submitLog,
                [data |-> data, consentGiven |-> consentGiven,
                 valid |-> validation.isValid, posts |-> <<buildPayload(data)>>,
                 result |-> "pending", outcome |-> "",
                 callbacks |-> <<>>])
    /\ fop' = "submit"
    /\ UNCHANGED <<formConfig, populate, emailInput, consentBox, consentGiven>>

\* A faulty variant: the submit button is left enabled while the request is in
\* flight.
HandleSubmitKeepEnabled ==
    /\ FormStep
    /\ ui.form = "block" /\ ~ui.disabled
    /\ Len(submitLog) < MaxSubmits
    /\ LET data == CollectData
           validation == validate(data, consentGiven)
       IN IF ~validation.isValid
          THEN /\ ui' = [ui EXCEPT !.success = "none", !.error = "block",
                           !.errorText = <<ValidationHeader>> \o validation.errors]
               /\ request' = request
               /\ submitLog' = Append(submitLog,
                     [data |-> data, consentGiven |-> consentGiven, valid |-> FALSE,
                      posts |-> <<>>, result |-> "rejected", outcome |-> "",
                      callbacks |-> <<>>])
          ELSE /\ ui' = [ui EXCEPT !.success = "none", !.error = "none"]
               /\ request' = buildPayload(data)
               /\ submitLog' = Append(submitLog,
                     [data |-> data, consentGiven |-> consentGiven, valid |-> TRUE,
                      posts |-> <<buildPayload(data)>>, result |-> "pending",
                      outcome |-> "", callbacks |-> <<>>])
    /\ fop' = "submit"
    /\ UNCHANGED <<formConfig, populate, emailInput, consentBox, consentGiven>>

\* handleSubmit() up to its await: a submit event from the user, who can
\* submit a form that is displayed and whose submit button is enabled.
HandleSubmit ==
    /\ FormStep
    /\ ui.form = "block" /\ ~ui.disabled
    /\ Len(submitLog) < MaxSubmits
    /\ LET data == CollectData
           validation == validate(data, consentGiven)
       IN IF ~validation.isValid
          THEN /\ ui' = [ui EXCEPT !.success = "none", !.error = "block",
                           !.errorText = <<ValidationHeader>> \o validation.errors]
               /\ request' = request
               /\ submitLog' = Append(submitLog,
                     [data |-> data, consentGiven |-> consentGiven, valid |-> FALSE,
                      posts |-> <<>>, result |-> "rejected", outcome |-> "",
                      callbacks |-> <<>>])
          ELSE /\ ui' = [ui EXCEPT !.success = "none", !.error = "none",
                           !.disabled = TRUE, !.label = "Submitting..."]
               /\ request' = buildPayload(data)
               /\ submitLog' = Append(submitLog,
                     [data |-> data, consentGiven |-> consentGiven, valid |-> TRUE,
                      posts |-> <<buildPayload(data)>>, result |-> "pending",
                      outcome |-> "", callbacks |-> <<>>])
    /\ fop' = "submit"
    /\ UNCHANGED <<formConfig, populate, emailInput, consentBox, consentGiven>>

\* A faulty variant: a failed request is sent once more.
HandleResponseRetry(outcome) ==
    /\ FormStep
    /\ request # NoRequest
    /\ LET result == submitResult(outcome)
           n == Len(submitLog)
       IN IF result.success
          THEN /\ ui' = [ui EXCEPT !.form = "none", !.success = "block"]
               /\ request' = NoRequest
               /\ submitLog' = [submitLog EXCEPT ![n].result = "success", ![n].outcome = outcome]
          ELSE /\ ui' = ui
               /\ request' = request
               /\ submitLog' = [submitLog EXCEPT ![n].posts = Append(@, request)]
    /\ Len(submitLog[Len(submitLog)].posts) < 3
    /\ fop' = "settle"
    /\ UNCHANGED <<formConfig, populate, emailInput, consentBox, consentGiven>>

\* A faulty variant: the success callback runs whatever the result.
HandleResponseAlwaysCallback(outcome) ==
    /\ FormStep
    /\ request # NoRequest
    /\ LET result == submitResult(outcome)
           n == Len(submitLog)
           call == <<[data |-> submitLog[n].data, response |-> result.data]>>
       IN IF result.success
          THEN /\ ui' = [ui EXCEPT !.form = "none", !.success = "block"]
               /\ submitLog' = [submitLog EXCEPT ![n].result = "success", ![n].outcome = outcome,
                                                 ![n].callbacks = @ \o call]
          ELSE /\ ui' = [ui EXCEPT !.error = "block", !.errorText = SubmissionFailed,
                           !.disabled = FALSE, !.label = ButtonLabel(formConfig)]
               /\ submitLog' = [submitLog EXCEPT ![n].result = "error", ![n].outcome = outcome,
                                                 ![n].callbacks = @ \o call]
    /\ request' = NoRequest
    /\ fop' = "settle"
    /\ UNCHANGED <<formConfig, populate, emailInput, consentBox, consentGiven>>

\* A faulty variant: the button is left disabled after a failure.
HandleResponseNoReenable(outcome) ==
    /\ FormStep
    /\ request # NoRequest
    /\ LET result == submitResult(outcome)
           n == Len(submitLog)
       IN IF result.success
          THEN /\ ui' = [ui EXCEPT !.form = "none", !.success = "block"]
               /\ submitLog' = [submitLog EXCEPT ![n].result = "success", ![n].outcome = outcome]
          ELSE /\ ui' = [ui EXCEPT !.error = "block", !.errorText = SubmissionFailed]
               /\ submitLog' = [submitLog EXCEPT ![n].result = "error", ![n].outcome = outcome]
    /\ request' = NoRequest
    /\ fop' = "settle"
    /\ UNCHANGED <<formConfig, populate, emailInput, consentBox, consentGiven>>

\* The submit events whose request has not settled yet.
Pending == {k \in 1..Len(submitLog) : submitLog[k].result = "pending"}

\* A fetch settles and the handleSubmit() call that awaits it resumes: on
\* success hide the form, show the success panel and call config.onSuccess;
\* otherwise show the failure message and restore the button.
HandleResponse(outcome) ==
    /\ FormStep
    /\ \E n \in Pending :
         LET result == submitResult(outcome) IN
         /\ IF result.success
            THEN /\ ui' = [ui EXCEPT !.form = "none", !.success = "block"]
                 /\ submitLog' =
                      [submitLog EXCEPT
                          ![n].result = "success", ![n].outcome = outcome,
                          ![n].callbacks =
                              IF formConfig.onSuccess
                              THEN @ \o <<[data |-> submitLog[n].data,
                                           response |-> result.data]>>
                              ELSE @]
            ELSE /\ ui' = [ui EXCEPT !.error = "block", !.errorText = SubmissionFailed,
                             !.disabled = FALSE, !.label = ButtonLabel(formConfig)]
                 /\ submitLog' = [submitLog EXCEPT ![n].result = "error",
                                                   ![n].outcome = outcome]
         /\ request' = IF Pending = {n} THEN NoRequest ELSE request
    /\ fop' = "settle"
    /\ UNCHANGED <<formConfig, populate, emailInput, consentBox, consentGiven>>

\* --------------------------------------------------------------- the validator
NoResult == [isValid |-> FALSE, errors |-> <<<<"not called", "">>>>]

\* Keys a caller can pass besides email: two from the allowlist's forms, two
\* outside the allowlist.
OtherKeys == <<"company", "ssn", "interest_area">>

\* The data objects given to the validator: email absent or any text of up to
\* MaxLen characters, then any of the other keys.
ValidatorInputs ==
    {[data |-> em \o SelectSeq([k \in 1..Len(OtherKeys) |-> <<OtherKeys[k], <<"a">>>>],
                               LAMBDA en : en[1] \in others),
      consentGiven |-> given] :
        em \in {<<>>} \cup {<<<<"email", t>>>> : t \in Texts(MaxLen)},
        others \in SUBSET {OtherKeys[k] : k \in 1..Len(OtherKeys)},
        given \in BOOLEAN}

Validate ==
    /\ ValidatorStep
    /\ vOut = NoResult
    /\ vOut' = validate(vIn.data, vIn.consentGiven)
    /\ UNCHANGED vIn

\* ------------------------------------------------------------ the page view's URLs
NothingSent == [page |-> <<>>, page_url |-> <<>>, referrer |-> <<>>]

\* window.location.href is an absolute URL.
Locations == {<<"o">> \o t : t \in UrlTails(MaxUrlLen)}

\* document.referrer is empty or a URL; texts that do not parse are given as
\* well, to reach sanitizeURL's catch.
Referrers == UrlTails(MaxUrlLen) \cup Locations

\* trackPageView() computes and transmits its properties.
TrackPageViewUrls ==
    /\ UrlStep
    /\ sent = NothingSent
    /\ sent' = pageViewProperties(href, referrer)
    /\ UNCHANGED <<href, referrer>>

\* ---------------------------------------------------------- specifications

\* The analytics shim and the banner at rest, as the form and validator
\* specifications keep them.
AnalyticsIdle ==
    \E s \in Arrangements :
        /\ DOMAIN s = {}
        /\ InitOn([campaign |-> FALSE, va |-> FALSE, hsq |-> FALSE, ea |-> FALSE,
                   medium |-> "none", cta |-> FALSE, form |-> FALSE], s)

FormIdle == FormInit(minimalConfig) /\ populate = FALSE

ValidatorIdle ==
    /\ vIn = [data |-> <<>>, consentGiven |-> FALSE]
    /\ vOut = NoResult

UrlIdle ==
    /\ href = <<"o">>
    /\ referrer = <<>>
    /\ sent = NothingSent

Next ==
    \/ PageLoad
    \/ ShowConsentBanner
    \/ \E accepted \in BOOLEAN : HandleConsentChoice(accepted)
    \/ BannerRemove
    \/ \E value \in BOOLEAN : SetConsentCall(value)
    \/ CTAClick
    \/ FormSubmitEvent
    \/ \E e \in Elements : VisibilityChange(e)
    \/ Tick
    \/ \E h \in Handles : SectionTimerFire(h)

Init == InitPages /\ FormIdle /\ ValidatorIdle /\ UrlIdle

Spec == Init /\ [][Next]_vars

\* Pages without the campaign attribute that carry both vendor globals and the
\* shim, on which page code also calls the functions of the
\* window.EventAnalytics namespace.
InitNamespace ==
    /\ \E p \in Pages, s \in Arrangements :
        /\ ~p.campaign /\ p.ea /\ p.va /\ p.hsq /\ p.medium = "none"
        /\ \/ p.cta /\ ~p.form /\ DOMAIN s = {}
           \/ ~p.cta /\ p.form /\ DOMAIN s = {}
           \/ ~p.cta /\ ~p.form /\ DOMAIN s = {1} /\ s[1] = 1
        /\ InitOn(p, s)
    /\ FormIdle
    /\ ValidatorIdle
    /\ UrlIdle

\* Every handler of such a page, where no dwell timeout is ever pending, and
\* the namespace functions.
NextNamespace ==
    \/ PageLoad
    \/ ShowConsentBanner
    \/ \E accepted \in BOOLEAN : HandleConsentChoice(accepted)
    \/ BannerRemove
    \/ \E value \in BOOLEAN : SetConsentCall(value)
    \/ CTAClick
    \/ FormSubmitEvent
    \/ \E e \in Elements : VisibilityChange(e)
    \/ Tick
    \/ NamespaceTrackCTAClick
    \/ NamespaceTrackFormSubmit
    \/ \E id \in Ids : NamespaceTrackSectionEngagement(id)

SpecNamespace == InitNamespace /\ [][NextNamespace]_vars

\* Pages of a campaign that carry tracked sections only, in every arrangement
\* of up to NumElements elements over NumIds identifiers.
InitSections ==
    /\ \E p \in Pages, s \in Arrangements :
        /\ p.campaign /\ p.ea /\ p.va /\ p.hsq /\ p.medium = "none"
        /\ ~p.cta /\ ~p.form
        /\ DOMAIN s # {}
        /\ InitOn(p, s)
    /\ FormIdle
    /\ ValidatorIdle
    /\ UrlIdle

\* The section observer alone: page loads, init() re-entries, visibility
\* callbacks, the passing of time and timer expiries, in any interleaving.
NextSections ==
    \/ PageLoad
    \/ SetConsentCall(TRUE)
    \/ \E e \in Elements : VisibilityChange(e)
    \/ Tick
    \/ \E h \in Handles : SectionTimerFire(h)

SpecSections == InitSections /\ [][NextSections]_vars

\* One page load of such a page, in which time passes and due timeouts are
\* run: the browser's event loop leaves no due timer callback waiting for ever.
NextDwell ==
    \/ SetConsentCall(TRUE)
    \/ \E e \in Elements : VisibilityChange(e)
    \/ Tick
    \/ \E h \in Handles : SectionTimerFire(h)

SpecDwell ==
    /\ InitSections
    /\ [][NextDwell]_vars
    /\ WF_vars(Tick)
    /\ \A h \in Handles : WF_vars(SectionTimerFire(h))

\* One form instance of any configuration: the user edits, toggles, submits,
\* and requests settle.
NextForm ==
    \/ \E text \in EmailInputs : TypeEmail(text)
    \/ ConsentChange
    \/ HandleSubmit
    \/ \E outcome \in Outcomes : HandleResponse(outcome)

InitForm ==
    /\ AnalyticsIdle
    /\ ValidatorIdle
    /\ UrlIdle
    /\ \E config \in FormConfigs : FormInit(config)

SpecForm == InitForm /\ [][NextForm]_vars

\* The validator called on every input.
InitValidate ==
    /\ AnalyticsIdle
    /\ FormIdle
    /\ UrlIdle
    /\ vIn \in ValidatorInputs
    /\ vOut = NoResult

NextValidate == Validate

SpecValidate == InitValidate /\ [][NextValidate]_vars

\* trackPageView()'s URLs computed for every location and referrer.
InitSanitize ==
    /\ AnalyticsIdle
    /\ FormIdle
    /\ ValidatorIdle
    /\ href \in Locations
    /\ referrer \in Referrers
    /\ sent = NothingSent

NextSanitize == TrackPageViewUrls

SpecSanitize == InitSanitize /\ [][NextSanitize]_vars

\* ------------------------------------------------------------------ stated properties

\* C1: on a page whose CRM queue exists, every sendHubSpotEvent call of a
\* handler pushes one entry onto the queue if and only if hasUserConsent() is
\* true at the call; with the consent value false or absent in both storage
\* locations the queue does not grow, whatever came before.
C1_CrmPushIffConsent ==
    /\ page.hsq =>
         obs.hsPushed = IF hasUserConsent(cookie, local) THEN obs.hsCalls ELSE 0
    /\ cookie # "true" /\ local # "true" => obs.hsPushed = 0
    /\ obs.hsPushed > 0 => page.hsq

C1_Witness ==
    /\ obs.op = "click"
    /\ obs.hsCalls > 0
    /\ obs.hsPushed = obs.hsCalls
    /\ cookie = "false" /\ local = "true"

\* C2: the consent banner is injected only while no consent decision is
\* stored in the cookie or the local store.
C2_BannerOnlyWithoutDecision ==
    obs.op = "showConsentBanner" => ~hasExistingConsent

\* C9: handleConsentChoice leaves the same string, "true" for accept and
\* "false" for reject, in the cookie and in the local store; on a page that
\* carries the analytics shim an acceptance runs init() once, and a rejection
\* never runs it.
C9_SetConsentBothStoresAndSignal ==
    obs.op = "handleConsentChoice" =>
        /\ cookie = (IF obs.arg THEN "true" ELSE "false")
        /\ local = cookie
        /\ obs.inits = IF obs.arg /\ page.ea THEN 1 ELSE 0

C9_Witness ==
    /\ obs.op = "handleConsentChoice"
    /\ obs.arg
    /\ obs.inits = 1
    /\ cookie = "true" /\ local = "true"

\* C10: every sendVercelEvent call of a handler reaches the sink's track
\* function when window.va is present, whatever the stored consent, and none
\* does when it is absent.
C10_VercelNeverGated ==
    obs.vaTracked = IF page.va THEN obs.vaCalls ELSE 0

C10_Witness ==
    /\ obs.op = "click"
    /\ obs.vaCalls > 0
    /\ obs.vaTracked = obs.vaCalls
    /\ ~hasUserConsent(cookie, local)
    /\ obs.hsPushed = 0

\* C3: each sink receives the engagement event of a section identifier at most
\* once per page load, and a dwell timer that reports a section does so only
\* when an element of that section has been visible, without a break, for the
\* whole dwell time.
C3_SectionOnceAndOnlyAfterDwell ==
    /\ \A i \in Ids :
         /\ va[<<"section_engagement", i>>] <= 1
         /\ hsq[<<"Section Engagement", i>>] <= 1
    /\ obs.op = "sectionTimer" /\ obs.vaCalls > 0 =>
         \E e \in DOMAIN sectionOf :
            /\ sectionOf[e] = obs.id
            /\ visible[e]
            /\ visDur[e] >= SectionEngagementTime

C3_Witness ==
    /\ obs.op = "sectionTimer"
    /\ obs.vaCalls = 0
    /\ va[<<"section_engagement", obs.id>>] = 1
    /\ installed.observers = 2

\* Range of a sequence.
Range(seq) == {seq[k] : k \in 1..Len(seq)}

\* The email pattern said without the regular expression: no blank, exactly
\* one at sign, something before it, and after it a dot with something on
\* both sides.
MatchesPattern(t) ==
    /\ \A k \in 1..Len(t) : t[k] # " "
    /\ Cardinality({k \in 1..Len(t) : t[k] = "@"}) = 1
    /\ LET at == CHOOSE k \in 1..Len(t) : t[k] = "@" IN
         /\ at > 1
         /\ \E d \in (at + 2)..(Len(t) - 1) : t[d] = "."

\* The email of a data object is absent: no value, or an empty one.
EmailAbsent(data) == "email" \notin Keys(data) \/ Get(data, "email") = <<>>

\* The rules an input violates, as the validator's contract lists them.
ViolatedRules(data, given) ==
    (IF given THEN {} ELSE {ConsentError})
    \cup (IF EmailAbsent(data) THEN {EmailRequiredError} ELSE {})
    \cup (IF ~EmailAbsent(data) /\ ~MatchesPattern(Get(data, "email"))
          THEN {EmailInvalidError} ELSE {})
    \cup {NotAllowedError(key) : key \in Keys(data) \ allowedFields}

LastSubmit == submitLog[Len(submitLog)]

\* C4: every submit event made with a valid email and the consent box checked
\* has issued exactly one POST, whose fields hold the email entry and whose
\* consentToProcess is true.
C4_OnePostPerValidSubmit ==
    \A k \in 1..Len(submitLog) :
        LET ev == submitLog[k] IN
        ev.consentGiven /\ ~EmailAbsent(ev.data)
                        /\ MatchesPattern(Get(ev.data, "email")) =>
            /\ Len(ev.posts) = 1
            /\ ev.posts[1].consentToProcess
            /\ \E f \in Range(ev.posts[1].fields) :
                  f.name = "email" /\ f.value = Get(ev.data, "email")

\* C5: a submit event that violates a rule issues no POST; right after it the
\* error panel shows every violated rule, no request is in flight and the
\* submit button is enabled.  No submit event made while consentGiven is false
\* has a POST.
C5_InvalidSubmitBlocked ==
    /\ \A k \in 1..Len(submitLog) :
         LET ev == submitLog[k] IN
         /\ ~ev.consentGiven => ev.posts = <<>>
         /\ ViolatedRules(ev.data, ev.consentGiven) # {} =>
              ev.posts = <<>> /\ ev.result = "rejected"
    /\ fop = "submit" /\ ViolatedRules(LastSubmit.data, LastSubmit.consentGiven) # {} =>
         /\ ui.error = "block"
         /\ ui.success = "none"
         /\ Range(ui.errorText) =
              {ValidationHeader}
              \cup ViolatedRules(LastSubmit.data, LastSubmit.consentGiven)
         /\ ~ui.disabled
         /\ request = NoRequest

C5_Witness ==
    /\ fop = "submit"
    /\ LastSubmit.result = "rejected"
    /\ Len(ui.errorText) = 3
    /\ Len(submitLog) = 2
    /\ submitLog[1].result = "error"

\* The rules an input violates when only a missing email key counts as an
\* absent email, and an empty email counts as a present one that does not match.
ViolatedRulesKeyAbsent(data, given) ==
    (IF given THEN {} ELSE {ConsentError})
    \cup (IF "email" \notin Keys(data) THEN {EmailRequiredError} ELSE {})
    \cup (IF "email" \in Keys(data) /\ ~MatchesPattern(Get(data, "email"))
          THEN {EmailInvalidError} ELSE {})
    \cup {NotAllowedError(key) : key \in Keys(data) \ allowedFields}

\* C6: validate returns every violated rule exactly once: the consent error
\* iff consentGiven is false, the email-required error iff the email is absent
\* or the empty string, the invalid-email error iff the email is a non-empty
\* string that does not match the pattern, one "not allowed" error per key
\* outside the allowlist; isValid is true iff the list is empty.
C6_ValidateListsAllViolations ==
    vOut # NoResult =>
        /\ Range(vOut.errors) = ViolatedRules(vIn.data, vIn.consentGiven)
        /\ Len(vOut.errors) = Cardinality(ViolatedRules(vIn.data, vIn.consentGiven))
        /\ vOut.isValid <=> vOut.errors = <<>>
        /\ "ssn" \in Keys(vIn.data) => NotAllowedError("ssn") \in Range(vOut.errors)

\* C6 as stated: the email-required error iff the email key is absent, the
\* invalid-email error iff the email is present and does not match the pattern.
C6_EmptyEmailReportedInvalid ==
    vOut # NoResult =>
        Range(vOut.errors) = ViolatedRulesKeyAbsent(vIn.data, vIn.consentGiven)

C6_Witness ==
    /\ vOut # NoResult
    /\ ~vIn.consentGiven
    /\ "email" \in Keys(vIn.data)
    /\ Get(vIn.data, "email") = <<>>
    /\ Range(vOut.errors) =
         {ConsentError, EmailRequiredError, NotAllowedError("ssn"),
          NotAllowedError("interest_area")}

\* C7: while a request is in flight the submit button is disabled; when the
\* request ends in a non-2xx response or a transport error, the submission is
\* recorded as failed, the success panel stays hidden, the generic failure
\* message is shown, and the button is enabled again with its original label
\* on a form that is still displayed.
C7_FailureReenables ==
    /\ request # NoRequest => ui.disabled /\ ui.label = "Submitting..."
    /\ \A k \in 1..Len(submitLog) :
         submitLog[k].outcome \in {"status:400", "network"} =>
            submitLog[k].result = "error"
    /\ fop = "settle" /\ LastSubmit.outcome \in {"status:400", "network"} =>
         /\ ui.success = "none"
         /\ ui.error = "block"
         /\ ui.errorText = SubmissionFailed
         /\ ~ui.disabled
         /\ ui.label = (IF formConfig.buttonText = "" THEN "Submit"
                        ELSE formConfig.buttonText)
         /\ ui.form = "block"
         /\ request = NoRequest

C7_Witness ==
    /\ fop = "settle"
    /\ LastSubmit.outcome = "status:400"
    /\ ~ui.disabled
    /\ ui.label = "Send Checklist"

\* C8: a submission that succeeded has hidden the form and shown the success
\* panel, and has called config.onSuccess, when the configuration has one,
\* exactly once, with the data that was posted and the decoded response body;
\* a submission that failed or was rejected by validation has called nothing.
C8_SuccessCallbackOnce ==
    \A k \in 1..Len(submitLog) :
        LET ev == submitLog[k] IN
        /\ ev.result = "success" =>
             /\ ui.form = "none"
             /\ ui.success = "block"
             /\ ev.outcome \in {"ok:{}", "ok:{\"inlineMessage\":1}"}
             /\ formConfig.onSuccess =>
                  /\ Len(ev.callbacks) = 1
                  /\ ev.callbacks[1].data = ev.data
                  /\ buildPayload(ev.callbacks[1].data) = ev.posts[1]
                  /\ ev.callbacks[1].response =
                       [keys |-> IF ev.outcome = "ok:{}" THEN {}
                                 ELSE {"inlineMessage"}]
             /\ ~formConfig.onSuccess => ev.callbacks = <<>>
        /\ ev.result # "success" => ev.callbacks = <<>>

C8_Witness ==
    /\ Len(submitLog) = 2
    /\ submitLog[1].result = "error"
    /\ submitLog[2].result = "success"
    /\ Len(submitLog[2].callbacks) = 1
    /\ submitLog[2].outcome = "ok:{\"inlineMessage\":1}"

\* C11: on a page without the data-analytics-campaign attribute no event has
\* reached either sink and no observer or listener is installed, whatever the
\* user did and whatever page code called on the EventAnalytics namespace.
C11_NoCampaignNothingSent ==
    ~page.campaign =>
        /\ Total(va) = 0
        /\ Total(hsq) = 0
        /\ installed.observers = 0 /\ installed.cta = 0 /\ installed.form = 0

\* C12: init() run again leaves the installed listeners and observers as after
\* one run: at most one click listener, one submit listener and one section
\* observer are installed, and one CTA click or one form submit makes one call
\* to each send function and adds at most one event to each sink.
C12_InitIdempotent ==
    /\ installed.cta <= 1 /\ installed.form <= 1 /\ installed.observers <= 1
    /\ obs.op \in {"click", "submit"} =>
         /\ obs.vaCalls <= 1 /\ obs.hsCalls <= 1
         /\ obs.vaTracked <= 1 /\ obs.hsPushed <= 1

\* C13: the shim takes the visit for a QR scan exactly when utm_medium is
\* "qr"; each sink holds at most one QR-landing event per page load, the
\* generic sink exactly one once init() has run on a QR visit, and no sink
\* holds one when utm_medium has another value or is absent.
C13_QrLandingOnce ==
    /\ state.isQR => page.medium = "qr"
    /\ installed.inits > 0 => (state.isQR <=> page.medium = "qr")
    /\ page.medium # "qr" =>
         va[<<"qr_scan_landing", 0>>] = 0 /\ hsq[<<"QR Code Scan", 0>>] = 0
    /\ va[<<"qr_scan_landing", 0>>] <= 1
    /\ hsq[<<"QR Code Scan", 0>>] <= 1
    /\ page.medium = "qr" /\ page.va /\ installed.inits > 0 =>
         va[<<"qr_scan_landing", 0>>] = 1

\* C14: each sink holds at most one page-view event per page load, and no
\* other event reaches the generic sink before the page view.
C14_PageViewOncePerLoad ==
    /\ va[<<"page_view", 0>>] <= 1
    /\ hsq[<<"Landing Page View", 0>>] <= 1
    /\ Total(va) > 0 => va[<<"page_view", 0>>] >= 1

\* The pending timeouts of a section identifier.
TimersOf(i) == {h \in Handles : timers[h] # FreeSlot /\ timers[h].id = i}

\* C15: at most one timeout is pending per section identifier; the timer map
\* has an entry for an identifier exactly when a timeout for it is pending, and
\* the entry is that timeout's handle; right after a section dropped below the
\* threshold none is pending for it; and every timeout starts with the full
\* dwell time.
C15_TimerCancelledAndSingle ==
    /\ [](/\ \A i \in Ids :
              /\ Cardinality(TimersOf(i)) <= 1
              /\ state.sectionTimers[i] # NoTimer =>
                    TimersOf(i) = {state.sectionTimers[i]}
              /\ state.sectionTimers[i] = NoTimer => TimersOf(i) = {}
          /\ obs.op = "intersection" /\ ~obs.arg =>
                TimersOf(obs.id) = {} /\ state.sectionTimers[obs.id] = NoTimer)
    /\ [][\A h \in Handles :
            timers[h] = FreeSlot /\ timers'[h] # FreeSlot =>
                timers'[h].left = SectionEngagementTime]_vars

C15_Witness ==
    /\ obs.op = "intersection"
    /\ ~obs.arg
    /\ obs.id \notin state.trackedSections
    /\ TimersOf(obs.id) = {}
    /\ installed.observers = 2
    /\ \E e \in DOMAIN sectionOf : sectionOf[e] = obs.id /\ visible[e]

\* C16: whenever the cookie and the local store both hold a consent value,
\* they hold the same one.
C16_StoresAgree ==
    cookie # Absent /\ local # Absent => cookie = local

\* C20: while the most recent consent operation is a rejection,
\* hasUserConsent() is false and no handler pushes onto the CRM queue.
C20_WithdrawalTakesEffect ==
    withdrawn => ~hasUserConsent(cookie, local) /\ obs.hsPushed = 0

\* The names of the controls the form renders from its configuration.
ControlNames == {formConfig.fields[k].name : k \in 1..Len(formConfig.fields)}

\* The two fields getAnalyticsData() derives.
AnalyticsNames == {"event_name", "utm_source_original"}

FieldNames(post) == {post.fields[k].name : k \in 1..Len(post.fields)}

\* C17: the data of a submit event never holds gdpr_consent; the fields of
\* every POST are, one name/value pair each, the form's controls and, when
\* window.BRI_populateFormFields is present, the two derived analytics fields;
\* every name is in the allowlist; and the values are the controls' values,
\* the derived values taking precedence.
C17_PayloadFieldsAllowlisted ==
    /\ \A k \in 1..Len(submitLog) :
         LET ev == submitLog[k] IN
         /\ "gdpr_consent" \notin Keys(ev.data)
         /\ \A n \in 1..Len(ev.posts) :
              LET post == ev.posts[n] IN
              /\ FieldNames(post) =
                    ControlNames \cup (IF populate THEN AnalyticsNames ELSE {})
              /\ Len(post.fields) = Cardinality(FieldNames(post))
              /\ "gdpr_consent" \notin FieldNames(post)
              /\ FieldNames(post) \subseteq allowedFields
    /\ fop = "submit" /\ LastSubmit.posts # <<>> =>
         \A f \in Range(LastSubmit.posts[1].fields) :
            f.value = IF populate /\ f.name = "event_name" THEN formConfig.eventName
                      ELSE IF f.name = "email" THEN emailInput
                      ELSE <<"a">>

\* C17 as stated: the fields of every POST are the form's controls plus the
\* derived analytics fields.
C17_AnalyticsFieldsAlwaysSent ==
    \A k \in 1..Len(submitLog) :
        \A n \in 1..Len(submitLog[k].posts) :
            FieldNames(submitLog[k].posts[n]) = ControlNames \cup AnalyticsNames

C17_Witness ==
    /\ fop = "submit"
    /\ formConfig = quickEmail
    /\ populate
    /\ consentBox
    /\ Len(LastSubmit.posts) = 1
    /\ Len(LastSubmit.posts[1].fields) = 4

\* The configurations shipped in BRI_FORM_CONFIGS.
ShippedConfigs == {floatingBanner, quickEmail, exitIntent}

\* C19: every field name declared by a shipped configuration is in the
\* allowlist, and a submit event of a shipped form with every control filled,
\* a valid email and the consent box checked passes validation and has a POST.
C19_ShippedConfigsSubmittable ==
    /\ \A config \in ShippedConfigs :
         \A k \in 1..Len(config.fields) : config.fields[k].name \in allowedFields
    /\ formConfig \in ShippedConfigs =>
         \A k \in 1..Len(submitLog) :
            LET ev == submitLog[k] IN
            ev.consentGiven /\ ~EmailAbsent(ev.data)
                            /\ MatchesPattern(Get(ev.data, "email")) =>
                ev.valid /\ ev.posts # <<>>

\* The part of a URL text before its query and fragment, as a reader of the
\* text sees it: everything up to the first "?" or "#".
BeforeQuery(url) == SubSeq(url, 1, FirstIn(url, {"?", "#"}) - 1)

\* C18: page, page_url and referrer hold no origin, no query string and no
\* fragment; page and page_url are the same path, which starts with "/" and
\* ends the location's text before its query; the referrer is "direct"
\* exactly when document.referrer is empty, and "/" when it cannot be parsed.
C18_PageViewUrlsPathOnly ==
    sent # NothingSent =>
        /\ \A p \in {sent.page, sent.page_url, sent.referrer} :
             /\ \A k \in 1..Len(p) : p[k] \notin {"?", "#", "o"}
             /\ Len(p) > 0
        /\ sent.page = sent.page_url
        /\ sent.page[1] = "/"
        /\ \/ \E k \in 1..Len(BeforeQuery(href)) :
                 sent.page = SubSeq(BeforeQuery(href), k, Len(BeforeQuery(href)))
           \/ sent.page = <<"/">> /\ "/" \notin Range(BeforeQuery(href))
        /\ sent.referrer = Direct <=> referrer = <<>>
        /\ referrer # <<>> /\ referrer[1] # "o" => sent.referrer = <<"/">>
        /\ referrer # <<>> => sent.referrer[1] = "/"

C18_Witness ==
    /\ sent # NothingSent
    /\ href = <<"o", "a", "/", "?">>
    /\ sent.page = <<"/">>
    /\ referrer = <<"o", "/", "a", "#">>
    /\ sent.referrer = <<"/", "a">>

\* The submit events whose request completed successfully.
Succeeded == {k \in 1..Len(submitLog) : submitLog[k].result = "success"}

\* C21: the success panel and the error panel are never displayed together,
\* and while the success panel is displayed the form is hidden and exactly one
\* request has completed successfully.
C21_PanelsExclusive ==
    /\ ~(ui.success = "block" /\ ui.error = "block")
    /\ ui.success = "block" =>
         /\ ui.form = "none"
         /\ Cardinality(Succeeded) = 1

C21_Witness ==
    /\ ui.success = "block"
    /\ ui.error = "none"
    /\ ui.form = "none"
    /\ Len(submitLog) = 2
    /\ submitLog[1].result = "rejected"
    /\ submitLog[2].result = "success"

\* An element has been visible without a break for the dwell time.
Dwelt(e) ==
    e \in DOMAIN sectionOf /\ visible[e] /\ visDur[e] >= SectionEngagementTime

\* C22: an element that has been visible without a break for the dwell time
\* and stays visible has its section identifier reported in the end.
C22_DwellEventuallyReported ==
    \A e \in Elements :
        Dwelt(e) ~>
            (e \in DOMAIN sectionOf
             /\ (sectionOf[e] \in state.trackedSections \/ ~visible[e]))

====
